---------------------------- MODULE Spec2Model ----------------------------
(***************************************************************************)
(* A model of metaconf: a Composite Configuration (MetaConfig) maps named  *)
(* fields (Nodes: a relative path and a handler factory) onto a directory  *)
(* tree.  The module models                                                *)
(*   - MetaConfig.read / MetaConfig.write, stepped field by field, with    *)
(*     the working-directory switch of utils.switch_dir        (Spec)      *)
(*   - MetaConfig.nodes and MetaConfig.tree, stepped as the generators     *)
(*     they are                                               (SpecWalk)   *)
(*   - the handler registry of metaconf/handler.py        (SpecRegistry)   *)
(***************************************************************************)
EXTENDS Integers, Sequences, FiniteSets, TLC

VARIABLES
    cfg,        \* the MetaConfig instance the calls are made on
    root,       \* the path argument given to read / write
    cwd,        \* the process working directory (os.getcwd), an absolute location
    dirs,       \* the directories of the file system (absolute locations)
    files,      \* the regular files of the file system: location -> content
    stack,      \* the Python call stack of MetaConfig.read / .write activations
    status,     \* "idle" | "running" | "raising" | "returned" | "raised"
    fault,      \* the exception in flight or raised to the caller ("none" if none)
    result,     \* <<d>> when read returned the dict d, <<>> otherwise
    wlog,       \* the handler.write invocations of the current call, in order
    rlog,       \* the handler.read invocations of the current call, in order
    call,       \* the arguments of the current top-level call
    raisedAt,   \* Len(wlog) + Len(rlog) when the exception was raised (-1: none)
    failed,     \* the trail of the field (or activation) whose processing raised
    thrown,     \* the exception as it was first raised ("none" if none)
    cwdOk,      \* every activation that ended so far left cwd as it found it
    lastWrite,  \* <<D>> after write(root, D, overwrite_ok=True) returned, else <<>>
    wcfg,       \* the MetaConfig instance that nodes / tree are called on
    gstack,     \* the suspended generator activations of nodes / _tree
    gstatus,    \* "idle" | "running" | "done"
    gcall,      \* the arguments of the current call of nodes / tree
    out,        \* what the generator has yielded so far (Nodes, or lines)
    prev,       \* the call completed just before, and what it yielded
    handler_registry,   \* the OrderedDict of handler.py: entries in key order
    recency,    \* the registered names, the one registered last at the end
    last,       \* the registry call made last and its outcome
    replaced,   \* <<e>> when the register call made last found the entry e under
                \* its name, <<>> otherwise
    invoked,    \* how many times the Node construction made last called a factory
    stored,     \* what the attributes of the Node under construction held when
                \* that construction ended: "unset" | "raw" | "canonical"
    failedCheck, \* the step of that construction that raised: "none" | "non-null" |
                \* "path" | "resolution" | "arity" | "before" (before __init__)
    schema,     \* <<T>> when the make_metaconfig call made last returned the type
                \* T (the sequence of its fields), <<>> otherwise
    builtWith   \* the registry as it was when that call was made

ioVars == <<cfg, root, cwd, dirs, files, stack, status, fault, result, wlog,
            rlog, call, raisedAt, failed, thrown, cwdOk, lastWrite>>

walkVars == <<wcfg, gstack, gstatus, gcall, out, prev>>

regVars == <<handler_registry, recency, last, replaced>>

nodeVars == <<invoked, stored, failedCheck>>

schemaVars == <<schema, builtWith>>

vars == <<ioVars, walkVars, regVars, nodeVars, schemaVars>>

(***************************************************************************)
(* Bounds                                                                  *)
(***************************************************************************)
NumValues == 2      \* distinct data values a field can hold
MaxNest == 2        \* nesting depth of the generated nested configurations

Values == 1..NumValues

(***************************************************************************)
(* Nodes, handlers, configurations                                         *)
(***************************************************************************)
\* A handler factory whose instance is a plain Handler (read / write only).
LeafHandler == [kind |-> "leaf", cfg |-> <<>>]

\* A handler factory whose instance is itself a MetaConfig with fields c.
ConfigHandler(c) == [kind |-> "cfg", cfg |-> c]

\* metaconf.node.Node: a path (sequence of segments) and a handler factory.
Node(path, handler) == [path |-> path, handler |-> handler]

\* One dataclass field of a MetaConfig subclass: its name and the Node it holds.
Field(name, node) == [name |-> name, node |-> node]

Flat3 ==
    << Field("a", Node(<<"a.txt">>, LeafHandler)),
       Field("b", Node(<<"b.txt">>, LeafHandler)),
       Field("c", Node(<<"c.txt">>, LeafHandler)) >>

\* Two fields declared with the same path: nothing in the code forbids it.
Dup2 ==
    << Field("a", Node(<<"a.txt">>, LeafHandler)),
       Field("b", Node(<<"a.txt">>, LeafHandler)) >>

\* A configuration d levels deep: one directory per level, a file at the bottom.
RECURSIVE Tower(_)
Tower(d) ==
    IF d = 1
    THEN << Field("a", Node(<<"a.txt">>, LeafHandler)) >>
    ELSE << Field("sub", Node(<<"s">>, ConfigHandler(Tower(d - 1)))) >>

\* A nested configuration followed by a sibling file: d + 1 levels in all.
Chain(d) ==
    << Field("sub", Node(<<"s">>, ConfigHandler(Tower(d)))),
       Field("x", Node(<<"x.txt">>, LeafHandler)) >>

IOConfigs == {Flat3, Dup2} \cup {Chain(d) : d \in 1..MaxNest}

\* The fields last-declared first.
fields_reversed(c) == [i \in 1..Len(c) |-> c[Len(c) + 1 - i]]

\* dataclasses.fields(self): the fields in declaration order.
fields(c) == c

IsConfig(h) == h.kind = "cfg"

(***************************************************************************)
(* Data mappings (Python dicts keyed by field name)                        *)
(***************************************************************************)
EmptyDict == [k \in {} |-> 0]

Put(d, k, v) == [x \in DOMAIN d \cup {k} |-> IF x = k THEN v ELSE d[x]]

Drop(d, k) == [x \in DOMAIN d \ {k} |-> d[x]]

\* Every mapping with a value for each declared field (a dict for a nested one).
RECURSIVE FullData(_)
FullData(c) ==
    IF c = <<>> THEN {EmptyDict}
    ELSE LET f == c[Len(c)]
             rest == FullData(SubSeq(c, 1, Len(c) - 1))
             vals == IF IsConfig(f.node.handler)
                     THEN FullData(f.node.handler.cfg) ELSE Values
         IN  {Put(r, f.name, v) : r \in rest, v \in vals}

\* The mappings that lack exactly one key, at the top or in a nested dict.
RECURSIVE PartialData(_)
PartialData(c) ==
    {Drop(d, c[i].name) : d \in FullData(c), i \in 1..Len(c)}
    \cup UNION { {Put(d, c[i].name, p) : d \in FullData(c),
                                         p \in PartialData(c[i].node.handler.cfg)}
                 : i \in {j \in 1..Len(c) : IsConfig(c[j].node.handler)} }

(***************************************************************************)
(* The file system                                                         *)
(***************************************************************************)
Home == <<"home">>

\* os-level resolution of a relative path against the working directory.
Resolve(base, path) == base \o path

Prefixes(loc) == {SubSeq(loc, 1, k) : k \in 0..Len(loc)}

Parent(loc) == SubSeq(loc, 1, Len(loc) - 1)

\* Path.is_dir()
is_dir(ds, loc) == loc \in ds

\* Path.exists()
exists(ds, fs, loc) == loc \in ds \/ loc \in DOMAIN fs

\* Path.mkdir() without parents=True: a plausible slip.
mkdir_noparents(ds, fs, loc) ==
    IF exists(ds, fs, loc) THEN [err |-> "FileExistsError", dirs |-> ds]
    ELSE IF Parent(loc) \notin ds THEN [err |-> "FileNotFoundError", dirs |-> ds]
    ELSE [err |-> "none", dirs |-> ds \cup {loc}]

\* Path.mkdir(parents=True), reached only when the path is not a directory.
mkdir(ds, fs, loc) ==
    IF loc \in DOMAIN fs THEN [err |-> "FileExistsError", dirs |-> ds]
    ELSE IF \E p \in Prefixes(loc) : p \in DOMAIN fs
         THEN [err |-> "NotADirectoryError", dirs |-> ds]
    ELSE [err |-> "none", dirs |-> ds \cup Prefixes(loc)]

\* switch_dir.__init__: the error it raises for a path that is no directory.
switch_dir_init(ds, fs, loc) ==
    IF is_dir(ds, loc) THEN "none"
    ELSE IF exists(ds, fs, loc) THEN "NotADirectoryError"
    ELSE "FileNotFoundError"

\* An __exit__ that restores the directory only when the body did not raise.
switch_dir_exit_norestore(old, cur, etype) ==
    [cwd |-> IF etype = "none" THEN old ELSE cur, suppress |-> FALSE]

\* An __exit__ that returns a true value, which makes `with` swallow the exception.
switch_dir_exit_swallow(old, cur, etype) ==
    [cwd |-> old, suppress |-> etype # "none"]

\* switch_dir.__exit__(etype, value, traceback): os.chdir(self.old); returns None.
switch_dir_exit(old, cur, etype) ==
    [cwd |-> old, suppress |-> FALSE]

(***************************************************************************)
(* A plain handler: the Handler protocol, kept by a file per path.         *)
(***************************************************************************)
\* What the environment may do to one handler call: nothing, or an I/O fault
\* (a full disk, a permission, a format error) that the handler raises.
IOFaults == {"none", "IOError"}

\* Handler.write(path, data, overwrite_ok=...)
Handler_write(ds, fs, loc, v, ow) ==
    IF loc \in ds THEN [err |-> "IsADirectoryError", files |-> fs]
    ELSE IF Parent(loc) \notin ds THEN [err |-> "FileNotFoundError", files |-> fs]
    ELSE IF loc \in DOMAIN fs /\ ~ow THEN [err |-> "FileExistsError", files |-> fs]
    ELSE [err |-> "none", files |-> Put(fs, loc, v)]

\* Handler.read(path)
Handler_read(ds, fs, loc) ==
    IF loc \in ds THEN [err |-> "IsADirectoryError", val |-> 0]
    ELSE IF loc \notin DOMAIN fs THEN [err |-> "FileNotFoundError", val |-> 0]
    ELSE [err |-> "none", val |-> fs[loc]]

(***************************************************************************)
(* MetaConfig.read and MetaConfig.write, one step per field                *)
(***************************************************************************)
Roots == { <<"r">>,         \* an existing directory
           <<"n", "m">>,    \* does not exist, nor does its parent
           <<"f">> }        \* exists, but is a regular file

\* How the caller gives overwrite_ok: not at all, or as a keyword argument.
OverwriteArgs == {"omitted", "True", "False"}

\* `overwrite_ok: bool = False` in the signature of write.
overwrite_ok_param(given) == given = "True"

\* A write that hands its handlers the default instead of what it was given.
overwrite_ok_dropped(ow) == FALSE

\* `overwrite_ok=overwrite_ok` in the call of handler.write.
overwrite_ok_forwarded(ow) == ow

\* dict.get(name, {}): the lenient lookup that write does not use.
data_get_default(data, name) ==
    IF name \in DOMAIN data THEN <<data[name]>> ELSE <<EmptyDict>>

\* data[field.name]: <<value>>, or <<>> for a KeyError.
data_getitem(data, name) ==
    IF name \in DOMAIN data THEN <<data[name]>> ELSE <<>>

NoCall == [op |-> "none", data |-> EmptyDict, given |-> "omitted", cwd0 |-> Home]

\* One activation of MetaConfig.read or MetaConfig.write.
Frame(op, c, path, trail, data, ow, at) ==
    [op |-> op, cfg |-> c, path |-> path, trail |-> trail, data |-> data,
     ow |-> ow, i |-> 1, pc |-> "enter", old |-> <<>>, cwd0 |-> at,
     acc |-> EmptyDict]

Top == stack[Len(stack)]

Below == SubSeq(stack, 1, Len(stack) - 1)

SetTop(f) == Below \o <<f>>

Done == status \in {"returned", "raised"}

Calls == Len(wlog) + Len(rlog)

IOStart(c, r) ==
    /\ cfg = c
    /\ root = r
    /\ cwd = Home
    /\ dirs = {<<>>, Home, Home \o <<"r">>}
    /\ files = (Home \o <<"f">>) :> 1
    /\ stack = <<>>
    /\ status = "idle"
    /\ fault = "none"
    /\ result = <<>>
    /\ wlog = <<>>
    /\ rlog = <<>>
    /\ call = NoCall
    /\ raisedAt = -1
    /\ failed = <<>>
    /\ thrown = "none"
    /\ cwdOk = TRUE
    /\ lastWrite = <<>>

IOInit == \E c \in IOConfigs, r \in Roots : IOStart(c, r)

\* The caller invokes cfg.write(root, D, overwrite_ok=...).
MetaConfig_write_call(D, given) ==
    /\ status = "idle"
    /\ status' = "running"
    /\ stack' = <<Frame("write", cfg, root, <<>>, D, overwrite_ok_param(given), cwd)>>
    /\ call' = [op |-> "write", data |-> D, given |-> given, cwd0 |-> cwd]
    /\ lastWrite' = <<>>
    /\ UNCHANGED <<cfg, root, cwd, dirs, files, fault, result, wlog, rlog, raisedAt,
                   failed, thrown, cwdOk>>
    /\ UNCHANGED <<walkVars, regVars, nodeVars, schemaVars>>

\* The caller invokes cfg.read(root).
MetaConfig_read_call ==
    /\ status = "idle"
    /\ status' = "running"
    /\ stack' = <<Frame("read", cfg, root, <<>>, EmptyDict, FALSE, cwd)>>
    /\ call' = [op |-> "read", data |-> EmptyDict, given |-> "omitted", cwd0 |-> cwd]
    /\ UNCHANGED <<cfg, root, cwd, dirs, files, fault, result, wlog, rlog, raisedAt,
                   failed, thrown, cwdOk, lastWrite>>
    /\ UNCHANGED <<walkVars, regVars, nodeVars, schemaVars>>

\* An exception of kind e starts to propagate from the top activation; it was
\* raised while the field (or the activation) with trail t was being processed,
\* after n handler invocations.
Raise(e, t, n) ==
    /\ status' = "raising"
    /\ fault' = e
    /\ thrown' = e
    /\ failed' = t
    /\ raisedAt' = n

\* write, lines 73-79: create the directory if need be, then enter switch_dir.
MetaConfig_write_enter ==
    /\ status = "running"
    /\ Top.op = "write"
    /\ Top.pc = "enter"
    /\ LET loc == Resolve(cwd, Top.path)
           mk  == IF is_dir(dirs, loc) THEN [err |-> "none", dirs |-> dirs]
                  ELSE mkdir(dirs, files, loc)
           sw  == switch_dir_init(mk.dirs, files, loc)
       IN  /\ dirs' = mk.dirs
           /\ IF mk.err # "none" \/ sw # "none"
              THEN /\ Raise(IF mk.err # "none" THEN mk.err ELSE sw, Top.trail, Calls)
                   /\ UNCHANGED <<cwd, stack>>
              ELSE /\ cwd' = loc
                   /\ stack' = SetTop([Top EXCEPT !.pc = "loop", !.old = cwd])
                   /\ UNCHANGED <<status, fault, raisedAt, failed, thrown>>
    /\ UNCHANGED <<cfg, root, files, result, wlog, rlog, call, cwdOk, lastWrite>>
    /\ UNCHANGED <<walkVars, regVars, nodeVars, schemaVars>>

\* write, lines 80-84: one iteration of the loop over the fields.
MetaConfig_write_field ==
    /\ status = "running"
    /\ Top.op = "write"
    /\ Top.pc = "loop"
    /\ Top.i <= Len(Top.cfg)
    /\ LET f     == fields(Top.cfg)[Top.i]
           node  == f.node
           got   == data_getitem(Top.data, f.name)
           ow    == overwrite_ok_forwarded(Top.ow)
           trail == Top.trail \o <<f.name>>
       IN  IF got = <<>>
           THEN /\ Raise("KeyError", trail, Calls)
                /\ UNCHANGED <<files, stack, wlog>>
           ELSE /\ wlog' = Append(wlog, [trail |-> trail, path |-> node.path,
                                         data |-> got[1], ow |-> ow,
                                         leaf |-> ~IsConfig(node.handler),
                                         loc |-> Resolve(cwd, node.path)])
                /\ IF IsConfig(node.handler)
                   THEN /\ stack' = Append(stack,
                               Frame("write", node.handler.cfg, node.path, trail,
                                     got[1], ow, cwd))
                        /\ UNCHANGED <<files, status, fault, raisedAt, failed,
                                       thrown>>
                   ELSE \E io \in IOFaults :
                        LET w == Handler_write(dirs, files, Resolve(cwd, node.path),
                                               got[1], ow)
                            e == IF io # "none" THEN io ELSE w.err
                        IN  IF e # "none"
                            THEN /\ Raise(e, trail, Calls + 1)
                                 /\ UNCHANGED <<files, stack>>
                            ELSE /\ files' = w.files
                                 /\ stack' = SetTop([Top EXCEPT !.i = @ + 1])
                                 /\ UNCHANGED <<status, fault, raisedAt, failed,
                                                thrown>>
    /\ UNCHANGED <<cfg, root, cwd, dirs, result, rlog, call, cwdOk, lastWrite>>
    /\ UNCHANGED <<walkVars, regVars, nodeVars, schemaVars>>

\* The activation on top ends with value v (None for write, the dict for read):
\* the caller's loop takes it, or the top-level caller gets it.
Finish(v) ==
    IF Len(stack) = 1
    THEN /\ stack' = <<>>
         /\ status' = "returned"
         /\ result' = IF Top.op = "read" THEN <<v>> ELSE <<>>
         /\ lastWrite' = IF Top.op = "read" THEN lastWrite
                         ELSE IF Top.ow THEN <<Top.data>> ELSE <<>>
    ELSE LET below == stack[Len(stack) - 1]
             name  == fields(below.cfg)[below.i].name
         IN  /\ stack' = SubSeq(stack, 1, Len(stack) - 2) \o
                    << [below EXCEPT !.i = @ + 1,
                                     !.acc = IF Top.op = "read"
                                             THEN Put(@, name, v) ELSE @] >>
             /\ status' = "running"
             /\ UNCHANGED <<result, lastWrite>>

\* The loop is over: switch_dir.__exit__(None, None, None), then return.
MetaConfig_exit ==
    /\ status = "running"
    /\ Top.pc = "loop"
    /\ Top.i > Len(Top.cfg)
    /\ LET x == switch_dir_exit(Top.old, cwd, "none")
       IN  /\ cwd' = x.cwd
           /\ cwdOk' = (cwdOk /\ x.cwd = Top.cwd0)
    /\ Finish(Top.acc)
    /\ UNCHANGED <<cfg, root, dirs, files, fault, wlog, rlog, call, raisedAt,
                   failed, thrown>>
    /\ UNCHANGED <<walkVars, regVars, nodeVars, schemaVars>>

\* An exception leaves the top activation: through switch_dir.__exit__ when the
\* activation is inside its `with` block, directly when it is not.
Propagate ==
    /\ status = "raising"
    /\ stack # <<>>
    /\ LET x == IF Top.pc = "loop" THEN switch_dir_exit(Top.old, cwd, fault)
                ELSE [cwd |-> cwd, suppress |-> FALSE]
       IN  /\ cwd' = x.cwd
           /\ cwdOk' = (cwdOk /\ x.cwd = Top.cwd0)
           /\ IF x.suppress
              THEN /\ Finish(Top.acc)
                   /\ fault' = "none"
              ELSE /\ stack' = Below
                   /\ status' = IF Len(stack) = 1 THEN "raised" ELSE "raising"
                   /\ UNCHANGED <<fault, result, lastWrite>>
    /\ UNCHANGED <<cfg, root, dirs, files, wlog, rlog, call, raisedAt, failed,
                   thrown>>
    /\ UNCHANGED <<walkVars, regVars, nodeVars, schemaVars>>

\* read, line 49: enter switch_dir(path).
MetaConfig_read_enter ==
    /\ status = "running"
    /\ Top.op = "read"
    /\ Top.pc = "enter"
    /\ LET loc == Resolve(cwd, Top.path)
           sw  == switch_dir_init(dirs, files, loc)
       IN  IF sw # "none"
           THEN /\ Raise(sw, Top.trail, Calls)
                /\ UNCHANGED <<cwd, stack>>
           ELSE /\ cwd' = loc
                /\ stack' = SetTop([Top EXCEPT !.pc = "loop", !.old = cwd])
                /\ UNCHANGED <<status, fault, raisedAt, failed, thrown>>
    /\ UNCHANGED <<cfg, root, dirs, files, result, wlog, rlog, call, cwdOk, lastWrite>>
    /\ UNCHANGED <<walkVars, regVars, nodeVars, schemaVars>>

\* read, lines 50-54: one iteration of the loop over the fields.
MetaConfig_read_field ==
    /\ status = "running"
    /\ Top.op = "read"
    /\ Top.pc = "loop"
    /\ Top.i <= Len(Top.cfg)
    /\ LET f     == fields(Top.cfg)[Top.i]
           node  == f.node
           trail == Top.trail \o <<f.name>>
       IN  /\ rlog' = Append(rlog, [trail |-> trail, path |-> node.path,
                                     leaf |-> ~IsConfig(node.handler),
                                     loc |-> Resolve(cwd, node.path)])
           /\ IF IsConfig(node.handler)
              THEN /\ stack' = Append(stack,
                          Frame("read", node.handler.cfg, node.path, trail,
                                EmptyDict, FALSE, cwd))
                   /\ UNCHANGED <<status, fault, raisedAt, failed, thrown>>
              ELSE \E io \in IOFaults :
                   LET r == Handler_read(dirs, files, Resolve(cwd, node.path))
                       e == IF io # "none" THEN io ELSE r.err
                   IN  IF e # "none"
                       THEN /\ Raise(e, trail, Calls + 1)
                            /\ UNCHANGED stack
                       ELSE /\ stack' = SetTop([Top EXCEPT
                                      !.i = @ + 1,
                                      !.acc = Put(@, f.name, r.val)])
                            /\ UNCHANGED <<status, fault, raisedAt, failed, thrown>>
    /\ UNCHANGED <<cfg, root, cwd, dirs, files, result, wlog, call, cwdOk, lastWrite>>
    /\ UNCHANGED <<walkVars, regVars, nodeVars, schemaVars>>

\* Control is back with the caller, which goes on to its next call.
Return ==
    /\ Done
    /\ status' = "idle"
    /\ fault' = "none"
    /\ result' = <<>>
    /\ wlog' = <<>>
    /\ rlog' = <<>>
    /\ call' = NoCall
    /\ raisedAt' = -1
    /\ failed' = <<>>
    /\ thrown' = "none"
    /\ UNCHANGED <<cfg, root, cwd, dirs, files, stack, cwdOk, lastWrite>>
    /\ UNCHANGED <<walkVars, regVars, nodeVars, schemaVars>>

IONext ==
    \/ \E D \in FullData(cfg) \cup PartialData(cfg), g \in OverwriteArgs :
          MetaConfig_write_call(D, g)
    \/ MetaConfig_read_call
    \/ MetaConfig_write_enter
    \/ MetaConfig_write_field
    \/ MetaConfig_read_enter
    \/ MetaConfig_read_field
    \/ MetaConfig_exit
    \/ Propagate
    \/ Return

(***************************************************************************)
(* MetaConfig.nodes and MetaConfig.tree: generators, one step per resumption *)
(***************************************************************************)
MaxDepthArg == 3    \* the largest integer given as max_depth

\* One field whose handler is a three-field configuration.
One3 == << Field("dir", Node(<<"d">>, ConfigHandler(Flat3))) >>

\* Two nested configurations side by side, and a file after them.
Twin ==
    << Field("left", Node(<<"l">>, ConfigHandler(Tower(1)))),
       Field("right", Node(<<"r">>, ConfigHandler(Tower(2)))),
       Field("last", Node(<<"z.txt">>, LeafHandler)) >>

\* <<>> is the MetaConfig base class itself, which has no fields.
WalkConfigs == {<<>>, Flat3, One3, Twin} \cup {Chain(d) : d \in 1..MaxNest}

\* max_depth: None (<<>>) or an integer d (<<d>>).
MaxDepthArgs == {<<>>} \cup {<<d>> : d \in (-1)..MaxDepthArg}

NoWalk == [op |-> "none", recurse |-> FALSE, max_depth |-> <<>>, details |-> FALSE]

\* One activation of the generator nodes (op "nodes") or _tree (op "tree").
GFrame(op, c, trail, recurse, depth, prefix) ==
    [op |-> op, cfg |-> c, trail |-> trail, i |-> 1, pc |-> "yield",
     recurse |-> recurse, depth |-> depth, prefix |-> prefix]

GTop == gstack[Len(gstack)]

GBelow == SubSeq(gstack, 1, Len(gstack) - 1)

GSetTop(f) == GBelow \o <<f>>

WalkStart(c) ==
    /\ wcfg = c
    /\ gstack = <<>>
    /\ gstatus = "idle"
    /\ gcall = NoWalk
    /\ out = <<>>
    /\ prev = [call |-> NoWalk, out |-> <<>>]

WalkInit ==
    \E c \in WalkConfigs : WalkStart(c)

\* `recurse: bool = False` in the signature of nodes, for a call without it.
nodes_recurse_default == FALSE

\* `handler.nodes()`: the recurse flag that the nested generator runs with.
nodes_nested_recurse(recurse) == nodes_recurse_default

\* The caller runs list(wcfg.nodes(recurse)).
nodes_call(recurse) ==
    /\ gstatus = "idle"
    /\ gstatus' = "running"
    /\ gcall' = [NoWalk EXCEPT !.op = "nodes", !.recurse = recurse]
    /\ gstack' = <<GFrame("nodes", wcfg, <<>>, recurse, 1, <<>>)>>
    /\ out' = <<>>
    /\ UNCHANGED <<wcfg, prev>>
    /\ UNCHANGED <<ioVars, regVars, nodeVars, schemaVars>>

\* nodes, lines 98-101: the next field's Node is yielded.
nodes_yield ==
    /\ gstatus = "running"
    /\ GTop.op = "nodes"
    /\ GTop.pc = "yield"
    /\ GTop.i <= Len(GTop.cfg)
    /\ LET f == fields(GTop.cfg)[GTop.i]
       IN  out' = Append(out, [trail |-> GTop.trail \o <<f.name>>, node |-> f.node])
    /\ gstack' = GSetTop([GTop EXCEPT !.pc = "descend"])
    /\ UNCHANGED <<wcfg, gstatus, gcall, prev>>
    /\ UNCHANGED <<ioVars, regVars, nodeVars, schemaVars>>

\* nodes, lines 103-104: resumed after the yield, the generator delegates to the
\* nodes of a handler that is a MetaConfig, or goes on to the next field.
nodes_descend ==
    /\ gstatus = "running"
    /\ GTop.op = "nodes"
    /\ GTop.pc = "descend"
    /\ LET f == fields(GTop.cfg)[GTop.i]
           advanced == [GTop EXCEPT !.i = @ + 1, !.pc = "yield"]
       IN  IF GTop.recurse /\ IsConfig(f.node.handler)
           THEN gstack' = GSetTop(advanced) \o
                    <<GFrame("nodes", f.node.handler.cfg, GTop.trail \o <<f.name>>,
                             nodes_nested_recurse(GTop.recurse), 1, <<>>)>>
           ELSE gstack' = GSetTop(advanced)
    /\ UNCHANGED <<wcfg, gstatus, gcall, out, prev>>
    /\ UNCHANGED <<ioVars, regVars, nodeVars, schemaVars>>

\* `max_depth or depth + 1`: Python's `or` takes the right side for None and for 0.
max_depth_or(max_depth, other) ==
    IF max_depth = <<>> \/ max_depth[1] = 0 THEN other ELSE max_depth[1]

\* _tree, line 119: tee for every field but the last, elbow for the last.
pointer(c, i) == IF i < Len(c) THEN "tee" ELSE "elbow"

\* The caller runs wcfg.tree(max_depth, details).
tree_call(max_depth, details) ==
    /\ gstatus = "idle"
    /\ gstatus' = "running"
    /\ gcall' = [NoWalk EXCEPT !.op = "tree", !.max_depth = max_depth,
                               !.details = details]
    /\ gstack' = <<GFrame("tree", wcfg, <<>>, FALSE, 1, <<>>)>>
    /\ out' = <<>>
    /\ UNCHANGED <<wcfg, prev>>
    /\ UNCHANGED <<ioVars, regVars, nodeVars, schemaVars>>

\* _tree, lines 122-132: the next field's line is yielded.
tree_yield ==
    /\ gstatus = "running"
    /\ GTop.op = "tree"
    /\ GTop.pc = "yield"
    /\ GTop.i <= Len(GTop.cfg)
    /\ LET f == fields(GTop.cfg)[GTop.i]
       IN  out' = Append(out,
               [trail |-> GTop.trail \o <<f.name>>,
                prefix |-> GTop.prefix,
                pointer |-> pointer(GTop.cfg, GTop.i),
                name |-> f.name,
                repr |-> IF gcall.details
                         THEN <<f.node.path, f.node.handler.kind>> ELSE <<>>])
    /\ gstack' = GSetTop([GTop EXCEPT !.pc = "descend"])
    /\ UNCHANGED <<wcfg, gstatus, gcall, prev>>
    /\ UNCHANGED <<ioVars, regVars, nodeVars, schemaVars>>

\* _tree, lines 134-142: resumed after the yield, the generator delegates to the
\* _tree of a handler that is a MetaConfig unless max_depth stops it.
tree_descend ==
    /\ gstatus = "running"
    /\ GTop.op = "tree"
    /\ GTop.pc = "descend"
    /\ LET f == fields(GTop.cfg)[GTop.i]
           advanced == [GTop EXCEPT !.i = @ + 1, !.pc = "yield"]
           extension == IF pointer(GTop.cfg, GTop.i) = "tee" THEN "pipe" ELSE "blank"
       IN  IF /\ GTop.depth < max_depth_or(gcall.max_depth, GTop.depth + 1)
              /\ IsConfig(f.node.handler)
           THEN gstack' = GSetTop(advanced) \o
                    <<GFrame("tree", f.node.handler.cfg, GTop.trail \o <<f.name>>,
                             FALSE, GTop.depth + 1, Append(GTop.prefix, extension))>>
           ELSE gstack' = GSetTop(advanced)
    /\ UNCHANGED <<wcfg, gstatus, gcall, out, prev>>
    /\ UNCHANGED <<ioVars, regVars, nodeVars, schemaVars>>

\* The loop over the fields is over: the activation ends, and with the outermost
\* one the whole walk.
walk_end ==
    /\ gstatus = "running"
    /\ GTop.pc = "yield"
    /\ GTop.i > Len(GTop.cfg)
    /\ gstack' = GBelow
    /\ gstatus' = IF Len(gstack) = 1 THEN "done" ELSE "running"
    /\ UNCHANGED <<wcfg, gcall, out, prev>>
    /\ UNCHANGED <<ioVars, regVars, nodeVars, schemaVars>>

\* The caller has the list (or the text) and goes on to its next call.
walk_return ==
    /\ gstatus = "done"
    /\ gstatus' = "idle"
    /\ prev' = [call |-> gcall, out |-> out]
    /\ gcall' = NoWalk
    /\ out' = <<>>
    /\ UNCHANGED <<wcfg, gstack>>
    /\ UNCHANGED <<ioVars, regVars, nodeVars, schemaVars>>

WalkNext ==
    \/ \E r \in BOOLEAN : nodes_call(r)
    \/ nodes_yield
    \/ nodes_descend
    \/ \E m \in MaxDepthArgs, d \in BOOLEAN : tree_call(m, d)
    \/ tree_yield
    \/ tree_descend
    \/ walk_end
    \/ walk_return

(***************************************************************************)
(* handler.py: the registry of handler factories                           *)
(***************************************************************************)
NumFactories == 2   \* distinct valid handler factories

\* A callable whose product has no read / write: not a Handler.
NotAHandlerFactory == 0

Factories == 1..NumFactories

\* A value given as name that is not a str.
NotAStr == "<int>"

RegistryNames == {"a", "b"}

Extensions == {".txt", ".json"}

\* The lists given as extensions: "txt" lacks the leading dot, NotAStr is no str.
ExtensionArgs ==
    (SUBSET Extensions) \cup {{"txt"}, {".txt", "txt"}, {NotAStr}, {".json", NotAStr}}

\* A test that every extension passes.
startswith_anything(ext) == TRUE

startswith_dot(ext) == ext \in Extensions

Paths == {"x.txt", "y.json", "z"}

\* pathlib.Path(path).suffix
suffix(path) ==
    CASE path = "x.txt" -> ".txt"
      [] path = "y.json" -> ".json"
      [] OTHER -> ""

NoRegistryCall == [op |-> "none", arg |-> "", raised |-> "none", value |-> <<>>,
                   warned |-> FALSE]

RegStart ==
    /\ handler_registry = <<>>
    /\ recency = <<>>
    /\ last = NoRegistryCall
    /\ replaced = <<>>
    /\ invoked = 0
    /\ stored = "unset"
    /\ failedCheck = "none"
    /\ schema = <<>>
    /\ builtWith = <<>>

\* `name in handler_registry`
registry_contains(reg, name) == \E i \in 1..Len(reg) : reg[i].name = name

\* dict.setdefault: a key that is present keeps its value.
registry_setdefault(reg, name, val) ==
    IF \E i \in 1..Len(reg) : reg[i].name = name THEN reg
    ELSE Append(reg, [name |-> name] @@ val)

\* OrderedDict.__setitem__: a key that is present keeps its place and gets the
\* new value, a new key goes to the end.
registry_setitem(reg, name, val) ==
    IF registry_contains(reg, name)
    THEN [i \in 1..Len(reg) |->
             IF reg[i].name = name THEN [name |-> name] @@ val ELSE reg[i]]
    ELSE Append(reg, [name |-> name] @@ val)

\* handler_registry[name]
registry_getitem(reg, name) ==
    reg[CHOOSE i \in 1..Len(reg) : reg[i].name = name]

\* register_handler(name, handler, extensions): the warning, the four asserts,
\* then the assignment.
register_handler(name, handler, extensions) ==
    LET warned == registry_contains(handler_registry, name)
        valid == /\ name # NotAStr
                 /\ handler # NotAHandlerFactory
                 /\ \A ext \in extensions : ext # NotAStr
                 /\ \A ext \in extensions : startswith_dot(ext)
    IN  /\ IF valid
           THEN /\ handler_registry' =
                       registry_setitem(handler_registry, name,
                           [handler |-> handler, extensions |-> extensions])
                /\ recency' = Append(SelectSeq(recency, LAMBDA n : n # name), name)
           ELSE UNCHANGED <<handler_registry, recency>>
        /\ last' = [op |-> "register", arg |-> <<name, handler, extensions>>,
                    raised |-> IF valid THEN "none" ELSE "AssertionError",
                    value |-> <<>>, warned |-> warned]
        /\ replaced' = IF registry_contains(handler_registry, name)
                       THEN <<registry_getitem(handler_registry, name)>> ELSE <<>>
        /\ UNCHANGED <<ioVars, walkVars, nodeVars, schemaVars>>

\* The entries of the registry whose extensions hold ext, in registry order.
compatible_handlers(reg, ext) == SelectSeq(reg, LAMBDA e : ext \in e.extensions)

\* list(compatible_handlers.values())[-1]
values_last(compatible) == compatible[Len(compatible)].handler

\* infer_handler_from_path: what it raises, returns and warns of, for a path
\* whose last component is called name.
infer_handler(reg, name) ==
    LET compatible == compatible_handlers(reg, suffix(name))
    IN  IF compatible = <<>>
        THEN [raised |-> "Exception", value |-> <<>>, warned |-> FALSE]
        ELSE [raised |-> "none", value |-> <<values_last(compatible)>>,
              warned |-> Len(compatible) > 1]

\* infer_handler_from_path(path)
infer_handler_from_path(path) ==
    LET r == infer_handler(handler_registry, path)
    IN  /\ last' = [op |-> "infer", arg |-> path, raised |-> r.raised,
                    value |-> r.value, warned |-> r.warned]
        /\ replaced' = <<>>
        /\ UNCHANGED <<handler_registry, recency>>
        /\ UNCHANGED <<ioVars, walkVars, nodeVars, schemaVars>>

\* What can be given as a handler: a str, a callable (a factory, valid or not),
\* or something that is neither (an int, say).
StrRef(s) == [kind |-> "str", s |-> s, f |-> 0]

FactoryRef(f) == [kind |-> "callable", s |-> "", f |-> f]

OtherRef == [kind |-> "other", s |-> "", f |-> 0]

\* "zzz" has no dot, "no.such" names no module, "pkg.Cls" and "pkg.Args" name
\* classes that importlib finds.
HandlerStrings == RegistryNames \cup {"zzz", "no.such", "pkg.Cls", "pkg.Args"}

\* The class that "pkg.Cls" names: a valid factory that no register call gives.
ImportedFactory == NumFactories + 1

\* The class that "pkg.Args" names: its constructor needs arguments.
NeedsArgsFactory == NumFactories + 2

HandlerRefs ==
    {StrRef(s) : s \in HandlerStrings}
        \cup {FactoryRef(f) : f \in Factories \cup {NotAHandlerFactory, NeedsArgsFactory}}
        \cup {OtherRef}

\* A resolution that lets a str that is no registered name pass, unresolved.
parse_handler_lenient(reg, input) ==
    IF input.kind = "str" /\ \E i \in 1..Len(reg) : reg[i].name = input.s
    THEN [raised |-> "none",
          value |-> <<reg[CHOOSE i \in 1..Len(reg) : reg[i].name = input.s].handler>>,
          invoked |-> 0]
    ELSE [raised |-> "none", value |-> <<NotAHandlerFactory>>, invoked |-> 0]

\* parse_handler(input): what it raises, what it returns, and how many times it
\* calls input.
parse_handler(reg, input) ==
    CASE input.kind = "str" /\ registry_contains(reg, input.s) ->
            [raised |-> "none", value |-> <<registry_getitem(reg, input.s).handler>>,
             invoked |-> 0]
      [] input.kind = "str" /\ ~registry_contains(reg, input.s) ->
            IF input.s \in {"pkg.Cls", "pkg.Args"}
            THEN [raised |-> "none",
                  value |-> IF input.s = "pkg.Cls" THEN <<ImportedFactory>>
                                                   ELSE <<NeedsArgsFactory>>,
                  invoked |-> 0]
            ELSE [raised |-> IF input.s = "no.such" THEN "ModuleNotFoundError"
                                                    ELSE "ValueError",
                  value |-> <<>>, invoked |-> 0]
      [] input.kind = "callable" ->
            IF input.f \notin {NotAHandlerFactory, NeedsArgsFactory}
            THEN [raised |-> "none", value |-> <<input.f>>, invoked |-> 1]
            ELSE [raised |-> "TypeError", value |-> <<>>, invoked |-> 1]
      [] OTHER -> [raised |-> "TypeError", value |-> <<>>, invoked |-> 0]

\* A caller resolves the handler reference input.
call_parse_handler(input) ==
    LET r == parse_handler(handler_registry, input)
    IN  /\ last' = [op |-> "parse", arg |-> input, raised |-> r.raised,
                    value |-> r.value, warned |-> FALSE]
        /\ replaced' = <<>>
        /\ UNCHANGED <<handler_registry, recency>>
        /\ UNCHANGED <<ioVars, walkVars, nodeVars, schemaVars>>

RegistryNext ==
    \/ \E name \in RegistryNames \cup {NotAStr},
          handler \in Factories \cup {NotAHandlerFactory},
          extensions \in ExtensionArgs :
            register_handler(name, handler, extensions)
    \/ \E path \in Paths : infer_handler_from_path(path)
    \/ \E input \in HandlerRefs : call_parse_handler(input)

(***************************************************************************)
(* node.py: Node construction and the transforms that give Nodes           *)
(***************************************************************************)
\* What can be given as path: None, a relative path, an absolute path, or a
\* path that starts with "~"; segs are the components after the anchor.
PathArg(form, segs) == [form |-> form, segs |-> segs]

NonePath == PathArg("None", <<>>)

\* The home directory that "~" stands for.
UserHome == <<"users", "u">>

NodePaths ==
    { NonePath,
      PathArg("rel", <<"x.txt">>),
      PathArg("rel", <<"d", "..", "y.json">>),
      PathArg("rel", <<"..", "x.txt">>),
      PathArg("abs", <<"home", "x.txt">>),
      PathArg("abs", <<"home", "..", "etc", "x.txt">>),
      PathArg("abs", <<"etc", "x.txt">>),
      PathArg("~", <<"x.txt">>) }

\* Path.expanduser
expanduser(p) == IF p.form = "~" THEN PathArg("abs", UserHome \o p.segs) ELSE p

\* Path.is_absolute
is_absolute(p) == p.form = "abs"

\* The components with every ".." taken together with the component before it
\* (at the root, ".." stays at the root).
RECURSIVE Normalize(_, _)
Normalize(done, segs) ==
    IF segs = <<>> THEN done
    ELSE IF Head(segs) = ".."
         THEN Normalize(IF done = <<>> THEN <<>> ELSE SubSeq(done, 1, Len(done) - 1),
                        Tail(segs))
         ELSE Normalize(Append(done, Head(segs)), Tail(segs))

\* Path.resolve, in a file system without symbolic links: an absolute location.
\* A path that starts with "~" is a relative one whose first component is "~".
resolve(at, p) ==
    CASE p.form = "abs" -> Normalize(<<>>, p.segs)
      [] p.form = "~" -> Normalize(at, <<"~">> \o p.segs)
      [] OTHER -> Normalize(at, p.segs)

\* Path.is_relative_to, on absolute locations
is_relative_to(loc, base) ==
    /\ Len(base) <= Len(loc)
    /\ SubSeq(loc, 1, Len(base)) = base

\* Lines 25 to 31: an absolute path is warned of, the raise is commented out.
absolute_raises == FALSE

\* Node.__post_init__ on an object whose path and handler (a handler reference)
\* __init__ has just set: what it raises, whether it warned, how many times a
\* factory was called, what the attributes hold at the end, and the Node.
Node_post_init(at, reg, path, handler) ==
    LET failure(e, w, n, check) ==
            [raised |-> e, warned |-> w, invoked |-> n, stored |-> "raw",
             value |-> <<>>, check |-> check]
        absolute == path.form # "None" /\ is_absolute(expanduser(path))
        parsed == parse_handler(reg, handler)
    IN  IF path.form = "None" THEN failure("AssertionError", FALSE, 0, "non-null")
        ELSE IF absolute /\ absolute_raises
             THEN failure("ValueError", FALSE, 0, "path")
        ELSE IF ~absolute /\ ~is_relative_to(resolve(at, path), at)
             THEN failure("ValueError", FALSE, 0, "path")
        ELSE IF parsed.raised # "none"
             THEN failure(parsed.raised, absolute, parsed.invoked, "resolution")
        ELSE IF parsed.value[1] = NeedsArgsFactory
             THEN failure("TypeError", absolute, parsed.invoked + 1, "arity")
        ELSE [raised |-> "none", warned |-> absolute,
              invoked |-> parsed.invoked + 1, stored |-> "canonical",
              value |-> <<Node(path, parsed.value[1])>>, check |-> "none"]

\* A caller runs Node(path, handler).
Node_init(path, handler) ==
    LET r == Node_post_init(cwd, handler_registry, path, handler)
    IN  /\ last' = [op |-> "Node", arg |-> <<path, handler>>, raised |-> r.raised,
                    value |-> r.value, warned |-> r.warned]
        /\ invoked' = r.invoked
        /\ stored' = r.stored
        /\ failedCheck' = r.check
        /\ replaced' = <<>>
        /\ UNCHANGED <<handler_registry, recency>>
        /\ UNCHANGED <<ioVars, walkVars, schemaVars>>

\* What can be given for a field: a Node, a dict with or without the keys
\* "path" and "handler", a str, a PathLike, or something else (an int, say).
NodeInput(kind, path, handler, node) ==
    [kind |-> kind, path |-> path, handler |-> handler, node |-> node]

NodeInputs ==
    {NodeInput("Node", <<>>, <<>>, <<Node(PathArg("rel", <<"y.json">>), f)>>) :
        f \in Factories}
      \cup {NodeInput(k, <<p>>, <<>>, <<>>) :
              k \in {"str", "PathLike", "dict"}, p \in NodePaths \ {NonePath}}
      \cup {NodeInput("dict", <<p>>, <<h>>, <<>>) :
              p \in {PathArg("rel", <<"x.txt">>), PathArg("rel", <<"..", "x.txt">>)},
              h \in HandlerRefs}
      \cup {NodeInput("dict", <<>>, <<StrRef("a")>>, <<>>),
            NodeInput("dict", <<>>, <<>>, <<>>),
            NodeInput("int", <<>>, <<>>, <<>>)}

\* Path(path).name, the last component ("" when there is none)
path_name(p) == IF p.segs = <<>> THEN "" ELSE p.segs[Len(p.segs)]

\* A transform that finds no path in a dict.
unwrap_str_only(input) == IF input.kind = "dict" THEN <<>> ELSE input.path

\* transform, lines 61 and 62: the path is the input itself or, for a dict, the
\* value under "path" (<<>> when the dict has no such key).
unwrap(input) == input.path

\* The outcome of a call that raised e before any Node was constructed.
Raised(e) ==
    [raised |-> e, warned |-> FALSE, invoked |-> 0, stored |-> "unset",
     value |-> <<>>, check |-> "before"]

\* path_to_node(handler)(input); handler is <<>> for None and <<h>> otherwise.
path_to_node(at, reg, handler, input) ==
    IF input.kind \notin {"str", "PathLike", "dict"} THEN Raised("TypeError")
    ELSE IF unwrap(input) = <<>> THEN Raised("KeyError")
    ELSE LET path == unwrap(input)[1]
             inferred == infer_handler(reg, path_name(path))
         IN  IF handler # <<>> THEN Node_post_init(at, reg, path, handler[1])
             ELSE IF inferred.raised # "none" THEN Raised(inferred.raised)
             ELSE LET r == Node_post_init(at, reg, path, FactoryRef(inferred.value[1]))
                  IN  [r EXCEPT !.warned = @ \/ inferred.warned]

\* dict_to_node(path_and_handler): Node(**path_and_handler)
dict_to_node(at, reg, input) ==
    IF input.path = <<>> THEN Raised("TypeError")
    ELSE Node_post_init(at, reg, input.path[1], input.handler[1])

\* to_node(input)
to_node(at, reg, input) ==
    CASE input.kind = "Node" ->
            [raised |-> "none", warned |-> FALSE, invoked |-> 0,
             stored |-> "canonical", value |-> input.node, check |-> "none"]
      [] input.kind = "dict" /\ input.handler # <<>> -> dict_to_node(at, reg, input)
      [] input.kind \in {"str", "PathLike"}
            \/ (input.kind = "dict" /\ input.handler = <<>>) ->
            path_to_node(at, reg, <<>>, input)
      [] OTHER -> Raised("TypeError")

\* A caller runs to_node(input).
call_to_node(input) ==
    LET r == to_node(cwd, handler_registry, input)
    IN  /\ last' = [op |-> "to_node", arg |-> input, raised |-> r.raised,
                    value |-> r.value, warned |-> r.warned]
        /\ invoked' = r.invoked
        /\ stored' = r.stored
        /\ failedCheck' = r.check
        /\ replaced' = <<>>
        /\ UNCHANGED <<handler_registry, recency>>
        /\ UNCHANGED <<ioVars, walkVars, schemaVars>>

NodeNext ==
    \/ \E reg_name \in {"a"}, handler \in Factories,
          extensions \in {{}, {".txt"}} :
            register_handler(reg_name, handler, extensions)
    \/ \E path \in NodePaths, handler \in HandlerRefs : Node_init(path, handler)
    \/ \E input \in NodeInputs : call_to_node(input)

(***************************************************************************)
(* config.py: make_metaconfig and the types it returns                     *)
(***************************************************************************)
\* One entry of a specification: a field name and the dict under it, with or
\* without the keys "path" and "handler" (<<>>: no such key).
FieldSpec(field, path, handler) ==
    [name |-> field, path |-> path, handler |-> handler]

\* The str "" given as a path.
EmptyStr == PathArg("rel", <<>>)

\* bool(spec.get("path", False))
path_given(fs) == fs.path # <<>> /\ fs.path[1] # EmptyStr

\* bool(spec.get("handler", False)); no handler reference of the model is falsy
handler_given(fs) == fs.handler # <<>>

XTxt == PathArg("rel", <<"x.txt">>)

YJson == PathArg("rel", <<"y.json">>)

\* Specifications, as dicts in insertion order.
SchemaSpecs ==
    { << FieldSpec("f", <<XTxt>>, <<StrRef("a")>>) >>,
      << FieldSpec("f", <<XTxt>>, <<StrRef("a")>>),
         FieldSpec("g", <<>>, <<StrRef("a")>>),
         FieldSpec("h", <<>>, <<>>) >>,
      << FieldSpec("g", <<>>, <<StrRef("a")>>),
         FieldSpec("f", <<YJson>>, <<FactoryRef(1)>>) >>,
      << FieldSpec("f", <<XTxt>>, <<StrRef("zzz")>>) >>,
      << FieldSpec("f", <<XTxt>>, <<>>) >>,
      << FieldSpec("h", <<>>, <<>>),
         FieldSpec("f", <<XTxt>>, <<>>) >>,
      << FieldSpec("f", <<EmptyStr>>, <<>>) >>,
      << FieldSpec("f", <<EmptyStr>>, <<StrRef("a")>>) >> }

\* A builder without the branch of line 192.
path_only_accepted(fs) == FALSE

\* Line 192: `elif path and not handler`
path_only(fs) == path_given(fs) /\ ~handler_given(fs)

\* The field that _make_metaconfig makes of an entry: "fixed" is init=False
\* with a default_factory that holds path and handler, "handler" has the
\* transform path_to_node(handler), "free" the transform to_node.
SchemaField(fs) ==
    [name |-> fs.name,
     rule |-> IF path_given(fs) /\ handler_given(fs) THEN "fixed"
              ELSE IF handler_given(fs) THEN "handler" ELSE "free",
     path |-> IF path_given(fs) /\ handler_given(fs) THEN fs.path ELSE <<>>,
     handler |-> IF handler_given(fs) THEN fs.handler ELSE <<>>]

\* _make_metaconfig(cls_name, config): what it raises and the type it returns.
make_metaconfig_dict(spec) ==
    IF \E i \in 1..Len(spec) : path_only(spec[i])
    THEN [raised |-> "NotImplementedError", value |-> <<>>]
    ELSE [raised |-> "none", value |-> <<[i \in 1..Len(spec) |-> SchemaField(spec[i])]>>]

\* The texts given as specifications and kept in files. A JSON text is written
\* without the quotes around its keys and strings.
DocF == "{f: {path: x.txt, handler: a}}"

DocGH == "{g: {handler: a}, h: {}}"

DocPathOnly == "{f: {path: x.txt}}"

NotJson == "f = x.txt"

\* The values that json.loads returns.
PyDict(d) == [type |-> "dict", dict |-> d]

PyInt == [type |-> "int", dict |-> <<>>]

\* json.loads(s): the dict or number that the text s stands for, or
\* JSONDecodeError. The paths and handlers of a dict read from JSON are strs.
json_loads(s) ==
    CASE s = DocF ->
            [raised |-> "none",
             value |-> <<PyDict(<<FieldSpec("f", <<XTxt>>, <<StrRef("a")>>)>>)>>]
      [] s = DocGH ->
            [raised |-> "none",
             value |-> <<PyDict(<<FieldSpec("g", <<>>, <<StrRef("a")>>),
                                  FieldSpec("h", <<>>, <<>>)>>)>>]
      [] s = DocPathOnly ->
            [raised |-> "none", value |-> <<PyDict(<<FieldSpec("f", <<XTxt>>, <<>>)>>)>>]
      [] s = "{}" -> [raised |-> "none", value |-> <<PyDict(<<>>)>>]
      [] s = "1" -> [raised |-> "none", value |-> <<PyInt>>]
      [] OTHER -> [raised |-> "JSONDecodeError", value |-> <<>>]

\* The files that hold a text, by the str that names them; three of the names
\* are JSON texts themselves.
SpecFiles ==
    ("spec.json" :> DocF) @@ ("{}" :> DocF) @@ ("1" :> DocGH)
        @@ (DocGH :> DocPathOnly) @@ ("notes.txt" :> NotJson)
        @@ ("/srv/spec.json" :> DocGH)

\* The strs that are not the name of a file.
MissingFiles == {"missing.json", "/srv/missing.json", DocF, DocPathOnly, NotJson}

\* Path(s)
Path(s) ==
    CASE s = "/srv/spec.json" -> PathArg("abs", <<"srv", "spec.json">>)
      [] s = "/srv/missing.json" -> PathArg("abs", <<"srv", "missing.json">>)
      [] OTHER -> PathArg("rel", <<s>>)

\* Path.exists, for the paths of specifications
spec_exists(path) == \E s \in DOMAIN SpecFiles : Path(s) = path

\* _str_is_json(s)
str_is_json(s) == json_loads(s).raised = "none"

\* _str_is_path(s)
str_is_path(s) ==
    LET path == Path(s)
    IN  \/ spec_exists(path)
        \/ is_absolute(path)
        \/ (is_absolute(path) /\ is_relative_to(path.segs, cwd))

\* The argument spec of make_metaconfig: a dict, a str, a path object (the
\* Path of the str) or an object of another type.
SpecInput(kind, dict, str) == [kind |-> kind, dict |-> dict, str |-> str]

DictSpec(d) == SpecInput("dict", d, "")

StrSpec(s) == SpecInput("str", <<>>, s)

PathSpec(s) == SpecInput("PathLike", <<>>, s)

SpecInputs ==
    {DictSpec(d) : d \in SchemaSpecs}
        \cup {StrSpec(s) : s \in DOMAIN SpecFiles \cup MissingFiles}
        \cup {PathSpec(s) : s \in {"spec.json", "{}", "1", "notes.txt",
                                   "/srv/spec.json", "missing.json"}}
        \cup {SpecInput("int", <<>>, "")}

\* A make_metaconfig that tries the path before the JSON text.
branch_path_first(spec) ==
    IF spec.kind = "dict" THEN "dict"
    ELSE IF spec.kind = "PathLike" \/ (spec.kind = "str" /\ str_is_path(spec.str))
    THEN "file"
    ELSE IF spec.kind = "str" /\ str_is_json(spec.str) THEN "json"
    ELSE "none"

\* The branch of make_metaconfig that spec takes: lines 244, 247 and 250 in
\* this order, and line 255 when none of them does.
branch(spec) ==
    IF spec.kind = "dict" THEN "dict"
    ELSE IF spec.kind = "str" /\ str_is_json(spec.str) THEN "json"
    ELSE IF spec.kind = "PathLike" \/ (spec.kind = "str" /\ str_is_path(spec.str))
    THEN "file"
    ELSE "none"

\* _make_metaconfig(cls_name, loaded) for what json.loads or json.load gave:
\* config is the dict that the builder went through, if it got one.
make_metaconfig_loaded(loaded, opened) ==
    IF loaded.raised # "none"
    THEN [raised |-> loaded.raised, value |-> <<>>, config |-> <<>>, opened |-> opened]
    ELSE IF loaded.value[1].type # "dict"
    THEN [raised |-> "AttributeError", value |-> <<>>, config |-> <<>>,
          opened |-> opened]
    ELSE LET r == make_metaconfig_dict(loaded.value[1].dict)
         IN  [raised |-> r.raised, value |-> r.value,
              config |-> loaded.value[1].dict, opened |-> opened]

\* make_metaconfig(cls_name, spec): what it raises, the type it returns, the
\* dict it built the type from and the files it opened.
make_metaconfig_any(spec) ==
    CASE branch(spec) = "dict" ->
            make_metaconfig_loaded([raised |-> "none", value |-> <<PyDict(spec.dict)>>],
                                   <<>>)
      [] branch(spec) = "json" -> make_metaconfig_loaded(json_loads(spec.str), <<>>)
      [] branch(spec) = "file" ->
            IF ~spec_exists(Path(spec.str))
            THEN [raised |-> "FileNotFoundError", value |-> <<>>, config |-> <<>>,
                  opened |-> <<>>]
            ELSE make_metaconfig_loaded(json_loads(SpecFiles[spec.str]), <<spec.str>>)
      [] OTHER ->
            [raised |-> "TypeError", value |-> <<>>, config |-> <<>>, opened |-> <<>>]

\* A caller runs make_metaconfig(cls_name, spec). In last, arg is the dict that
\* the type was built from (spec itself when it is a dict) and given is spec.
make_metaconfig(spec) ==
    LET r == make_metaconfig_any(spec)
    IN  /\ last' = [op |-> "make_metaconfig", arg |-> r.config, raised |-> r.raised,
                    value |-> r.value, warned |-> FALSE, given |-> spec,
                    opened |-> r.opened]
        /\ schema' = r.value
        /\ builtWith' = handler_registry
        /\ replaced' = <<>>
        /\ UNCHANGED <<handler_registry, recency>>
        /\ UNCHANGED <<ioVars, walkVars, nodeVars>>

\* The keyword arguments of an instantiation, field name -> value.
StrInput(p) == NodeInput("str", <<p>>, <<>>, <<>>)

SchemaKwargs ==
    { <<>>,
      [k \in {"g", "h"} |-> StrInput(XTxt)],
      ("g" :> NodeInput("dict", <<XTxt>>, <<>>, <<>>))
          @@ ("h" :> NodeInput("dict", <<YJson>>, <<StrRef("a")>>, <<>>)),
      [k \in {"g"} |-> StrInput(XTxt)],
      [k \in {"f"} |-> StrInput(YJson)],
      [k \in {"f", "g", "h"} |-> StrInput(YJson)],
      ("g" :> NodeInput("PathLike", <<XTxt>>, <<>>, <<>>))
          @@ ("h" :> NodeInput("Node", <<>>, <<>>, <<Node(YJson, 1)>>)),
      ("g" :> NodeInput("Node", <<>>, <<>>, <<Node(YJson, 1)>>))
          @@ ("h" :> StrInput(XTxt)),
      ("g" :> StrInput(XTxt)) @@ ("h" :> NodeInput("int", <<>>, <<>>, <<>>)) }

\* An __init__ that takes every field.
init_names_all(T) == {T[i].name : i \in 1..Len(T)}

\* The names that the __init__ of the type T takes.
init_names(T) == {T[i].name : i \in {j \in 1..Len(T) : T[j].rule # "fixed"}}

\* isinstance(v, Node), for a value v that a field holds
isinstance_Node(v) == DOMAIN v = DOMAIN Node(NonePath, NotAHandlerFactory)

\* The value that a field holds when it is given input: the Node itself, or
\* the str, path, dict or other object as it was given.
held(input) == IF input.kind = "Node" THEN input.node[1] ELSE input

\* A __post_init__ that leaves every field as __init__ set it.
post_init_field_skipped(at, reg, fld, input) ==
    [raised |-> "none", value |-> <<held(input)>>]

\* MetaConfig.__post_init__ for one field that __init__ set to input: the
\* transform of the field, if it has one, and then to_node on what is not a Node.
post_init_field(at, reg, fld, input) ==
    LET t == CASE fld.rule = "handler" -> path_to_node(at, reg, fld.handler, input)
               [] fld.rule = "free" -> to_node(at, reg, input)
               [] OTHER -> [raised |-> "none", value |-> <<held(input)>>]
    IN  IF t.raised # "none" \/ isinstance_Node(t.value[1]) THEN t
        ELSE to_node(at, reg, input)

\* What a field of T gets in an instantiation with kwargs: __init__ sets it to
\* what the default_factory returns or to the argument, MetaConfig.__post_init__
\* does the rest.
field_outcome(at, reg, fld, kwargs) ==
    IF fld.rule = "fixed"
    THEN LET n == Node_post_init(at, reg, fld.path[1], fld.handler[1])
         IN  IF n.raised # "none" THEN n
             ELSE post_init_field(at, reg, fld, NodeInput("Node", <<>>, <<>>, n.value))
    ELSE post_init_field(at, reg, fld, kwargs[fld.name])

\* T(**kwargs): what it raises and the instance it returns, as the sequence of
\* its fields.
instantiate(at, reg, T, kwargs) ==
    IF DOMAIN kwargs # init_names(T)
    THEN [raised |-> "TypeError", value |-> <<>>]
    ELSE LET o == [i \in 1..Len(T) |-> field_outcome(at, reg, T[i], kwargs)]
             bad(rules) == {i \in 1..Len(T) : T[i].rule \in rules /\ o[i].raised # "none"}
             first(S) == CHOOSE i \in S : \A j \in S : i <= j
         IN  IF bad({"fixed"}) # {}
             THEN [raised |-> o[first(bad({"fixed"}))].raised, value |-> <<>>]
             ELSE IF bad({"handler", "free"}) # {}
             THEN [raised |-> o[first(bad({"handler", "free"}))].raised,
                   value |-> <<>>]
             ELSE [raised |-> "none",
                   value |-> <<[i \in 1..Len(T) |-> Field(T[i].name, o[i].value[1])]>>]

\* A caller instantiates the type that make_metaconfig returned.
call_instantiate(kwargs) ==
    /\ schema # <<>>
    /\ LET r == instantiate(cwd, handler_registry, schema[1], kwargs)
       IN  last' = [op |-> "instantiate", arg |-> kwargs, raised |-> r.raised,
                    value |-> r.value, warned |-> FALSE]
    /\ replaced' = <<>>
    /\ UNCHANGED <<handler_registry, recency, schema, builtWith>>
    /\ UNCHANGED <<ioVars, walkVars, nodeVars>>

SchemaNext ==
    \/ \E reg_name \in {"a"}, handler \in Factories,
          extensions \in {{}, {".txt"}} :
            register_handler(reg_name, handler, extensions)
    \/ \E spec \in SpecInputs : make_metaconfig(spec)
    \/ \E kwargs \in SchemaKwargs : call_instantiate(kwargs)

(***************************************************************************)
(* Specifications                                                          *)
(***************************************************************************)
Init == IOInit /\ WalkStart(<<>>) /\ RegStart

Next == IONext

\* read and write on one configuration and one root.
Spec == Init /\ [][Next]_vars

InitWalk == IOStart(Flat3, <<"r">>) /\ WalkInit /\ RegStart

\* nodes and tree on one configuration.
SpecWalk == InitWalk /\ [][WalkNext]_vars

InitRegistry == IOStart(Flat3, <<"r">>) /\ WalkStart(<<>>) /\ RegStart

\* register_handler, infer_handler_from_path and parse_handler on one registry.
SpecRegistry == InitRegistry /\ [][RegistryNext]_vars

InitNode == IOStart(Flat3, <<"r">>) /\ WalkStart(<<>>) /\ RegStart

\* Node construction and to_node, in one working directory, on one registry.
SpecNode == InitNode /\ [][NodeNext]_vars

InitSchema == IOStart(Flat3, <<"r">>) /\ WalkStart(<<>>) /\ RegStart

\* make_metaconfig, instantiation of its type, and register calls in between.
SpecSchema == InitSchema /\ [][SchemaNext]_vars

(***************************************************************************)
(* What the claims speak of                                                *)
(***************************************************************************)
IsPrefix(a, b) == Len(a) <= Len(b) /\ SubSeq(b, 1, Len(a)) = a

Trails(log) == [k \in 1..Len(log) |-> log[k].trail]

Names(c) == {c[i].name : i \in 1..Len(c)}

\* The trails of all fields of c, a nested configuration's right after the field
\* that holds it: the order in which a complete write reaches them.
RECURSIVE DeclarationOrder(_, _)
DeclarationOrder(c, prefix) ==
    IF c = <<>> THEN <<>>
    ELSE LET f == Head(c)
             t == prefix \o <<f.name>>
         IN  <<t>>
             \o (IF IsConfig(f.node.handler)
                 THEN DeclarationOrder(f.node.handler.cfg, t) ELSE <<>>)
             \o DeclarationOrder(Tail(c), prefix)

\* The Node that the trail t of field names leads to in c.
RECURSIVE NodeAt(_, _)
NodeAt(c, t) ==
    LET n == (CHOOSE f \in {c[i] : i \in 1..Len(c)} : f.name = Head(t)).node
    IN  IF Len(t) = 1 THEN n ELSE NodeAt(n.handler.cfg, Tail(t))

\* The entry of the (nested) dict d that the trail t of keys leads to.
RECURSIVE Lookup(_, _)
Lookup(d, t) == IF Len(t) = 1 THEN d[Head(t)] ELSE Lookup(d[Head(t)], Tail(t))

\* The trail of the first declared field, in declaration order, for which the
\* (nested) dict d has no key; <<>> when d has them all.
RECURSIVE FirstMissing(_, _, _)
FirstMissing(c, d, prefix) ==
    IF c = <<>> THEN <<>>
    ELSE LET f == Head(c)
             t == prefix \o <<f.name>>
             inner == IF IsConfig(f.node.handler)
                      THEN FirstMissing(f.node.handler.cfg, d[f.name], t) ELSE <<>>
         IN  IF f.name \notin DOMAIN d THEN t
             ELSE IF inner # <<>> THEN inner
             ELSE FirstMissing(Tail(c), d, prefix)

\* Where each field of c lies below base, and whether a plain handler has it.
RECURSIVE FieldLocs(_, _)
FieldLocs(c, base) ==
    IF c = <<>> THEN <<>>
    ELSE LET f == Head(c)
             l == Resolve(base, f.node.path)
         IN  <<[loc |-> l, leaf |-> ~IsConfig(f.node.handler)]>>
             \o (IF IsConfig(f.node.handler)
                 THEN FieldLocs(f.node.handler.cfg, l) ELSE <<>>)
             \o FieldLocs(Tail(c), base)

\* No two fields of c, at any level, lie at the same location, and no field
\* lies beneath another field's file.
NoAlias(c) ==
    LET ls == FieldLocs(c, <<>>)
    IN  \A i, j \in 1..Len(ls) :
            i # j => /\ ls[i].loc # ls[j].loc
                     /\ ls[i].leaf => ls[i].loc \notin Prefixes(ls[j].loc)

RootLoc == Resolve(call.cwd0, root)

\* root is a directory or does not exist (nor is any part of it a file).
RootUsable == \A p \in Prefixes(RootLoc) : p \notin DOMAIN files

\* write(root, D, overwrite_ok=True) with a value for each field and handlers
\* that do not fault returns, and root is then a directory.
WriteCompletes ==
    (/\ Done
     /\ call.op = "write"
     /\ call.given = "True"
     /\ FirstMissing(cfg, call.data, <<>>) = <<>>
     /\ RootUsable
     /\ thrown # "IOError")
    => /\ status = "returned"
       /\ Prefixes(RootLoc) \subseteq dirs

\* read(root) right after such a write returns D, if no handler faults.
ReadReturnsWritten ==
    (/\ Done
     /\ call.op = "read"
     /\ lastWrite # <<>>
     /\ thrown # "IOError")
    => /\ status = "returned"
       /\ result = lastWrite

\* C1 (as claimed): for every configuration, every root (existing or not, then
\* created with its parents) and every D with a value for each field,
\* write(root, D, overwrite_ok=True) followed by read(root) returns D, the
\* handlers returning on read what was last written to the path given.
C1_RoundTripAnyConfig == WriteCompletes /\ ReadReturnsWritten

\* C1 (amended): the same, for every configuration in which no two fields, at
\* any nesting level, lie at the same location below root.
C1_RoundTrip == WriteCompletes /\ (NoAlias(cfg) => ReadReturnsWritten)

C1_Witness ==
    /\ status = "returned"
    /\ call.op = "read"
    /\ lastWrite # <<>>
    /\ result = lastWrite
    /\ NoAlias(cfg)
    /\ root = <<"n", "m">>
    /\ Len(rlog) > Len(cfg)

\* C2: when a call of read or write has returned or raised, also a nested one
\* made by a handler that is a configuration, and also when a handler raised
\* part-way, the working directory is the one that was current when the call
\* started.
C2_CwdRestored == cwdOk /\ (Done => cwd = call.cwd0)

C2_Witness ==
    /\ status = "raised"
    /\ thrown = "IOError"
    /\ Len(failed) >= 3
    /\ cwd = call.cwd0
    /\ cwdOk

\* C3: write invokes the handlers' write in declaration order; once the write
\* for a field has failed nothing more is attempted, and what the writes before
\* it have written is still there.
C3_WriteOrder ==
    call.op = "write" =>
        /\ IsPrefix(Trails(wlog), DeclarationOrder(cfg, <<>>))
        /\ status \in {"raising", "raised"} => raisedAt = Len(wlog)
        /\ LET ok == {k \in 1..Len(wlog) : wlog[k].leaf /\ wlog[k].trail # failed}
           IN  \A k \in ok :
                   (\A j \in ok : j > k => wlog[j].loc # wlog[k].loc)
                   => /\ wlog[k].loc \in DOMAIN files
                      /\ files[wlog[k].loc] = wlog[k].data

C3_Witness ==
    /\ status = "raised"
    /\ call.op = "write"
    /\ cfg = Flat3
    /\ failed = <<"b">>
    /\ Len(wlog) = 2
    /\ files[wlog[1].loc] = call.data["a"]

MissingKey == FirstMissing(cfg, call.data, <<>>)

\* C4 (as claimed): a write whose data lacks the key of a declared field never
\* completes: it raises KeyError, and that field's handler write is not invoked
\* (stated for a root that is a directory or can be created).
C4_MissingKeyRaisesKeyError ==
    (Done /\ call.op = "write" /\ MissingKey # <<>> /\ RootUsable)
    => /\ status = "raised"
       /\ fault = "KeyError"
       /\ \A k \in 1..Len(wlog) : wlog[k].trail # MissingKey

\* C4 (amended): such a write never completes and never invokes that field's
\* handler write; it raises KeyError unless creating the directory or an
\* earlier field's write has raised first, and then that exception is raised.
C4_MissingKey ==
    (Done /\ call.op = "write" /\ MissingKey # <<>>)
    => /\ status = "raised"
       /\ (fault = "KeyError") = (failed = MissingKey)
       /\ \A k \in 1..Len(wlog) : wlog[k].trail # MissingKey

C4_Witness ==
    /\ status = "raised"
    /\ call.op = "write"
    /\ fault = "KeyError"
    /\ MissingKey # <<>>
    /\ failed = MissingKey
    /\ Len(MissingKey) >= 2
    /\ Len(wlog) >= 1

\* C5: each handler write gets the caller's overwrite_ok (False if the caller
\* gave none), the field's entry of data and the field's relative path, at
\* every nesting level.
C5_Forwarding ==
    call.op = "write" =>
        \A k \in 1..Len(wlog) :
            /\ wlog[k].ow = (call.given = "True")
            /\ wlog[k].path = NodeAt(cfg, wlog[k].trail).path
            /\ wlog[k].data = Lookup(call.data, wlog[k].trail)

C5_Witness ==
    /\ call.op = "write"
    /\ call.given = "True"
    /\ \E k \in 1..Len(wlog) :
           /\ Len(wlog[k].trail) >= 3
           /\ wlog[k].leaf
           /\ wlog[k].ow

\* C6: a handler read that fails ends read with that very exception: no dict is
\* returned, no read is repeated or attempted afterwards; a read that returns
\* has had no failure, and its dict has exactly the declared field names as keys.
C6_ReadFaults ==
    call.op = "read" =>
        /\ status = "raised" => fault = thrown /\ thrown # "none" /\ result = <<>>
        /\ status \in {"raising", "raised"} => raisedAt = Len(rlog)
        /\ \A j, k \in 1..Len(rlog) : rlog[j].trail = rlog[k].trail => j = k
        /\ status = "returned" =>
               /\ thrown = "none"
               /\ Len(result) = 1
               /\ DOMAIN result[1] = Names(cfg)

C6_Witness ==
    /\ status = "raised"
    /\ call.op = "read"
    /\ thrown = "IOError"
    /\ Len(rlog) >= 2
    /\ failed = <<"b">>

(***************************************************************************)
(* nodes and tree                                                          *)
(***************************************************************************)
NodesDone == gstatus = "done" /\ gcall.op = "nodes"

TreeDone == gstatus = "done" /\ gcall.op = "tree"

\* The entries of the walk q for the fields of the walked configuration itself,
\* in the order of q.
RECURSIVE Own(_)
Own(q) ==
    IF q = <<>> THEN <<>>
    ELSE (IF Len(Head(q).trail) = 1 THEN <<Head(q)>> ELSE <<>>) \o Own(Tail(q))

\* The place of the field called name in c.
IndexOf(c, name) == CHOOSE i \in 1..Len(c) : c[i].name = name

\* The configuration whose field the trail t names.
HolderOf(t) ==
    IF Len(t) = 1 THEN wcfg ELSE NodeAt(wcfg, Parent(t)).handler.cfg

\* C7: nodes(recurse=True) yields the Nodes of the nested configurations of every
\* nesting depth, depth-first: the walk, once over, has yielded the Node of every
\* field of every level, a nested configuration's right after the field that
\* holds it.
C7_NodesEveryDepth ==
    (NodesDone /\ gcall.recurse) =>
        /\ Trails(out) = DeclarationOrder(wcfg, <<>>)
        /\ \A k \in 1..Len(out) : out[k].node = NodeAt(wcfg, out[k].trail)

C9_TreeMaxDepth ==
    TreeDone =>
        /\ gcall.max_depth # <<>> =>
            \A k \in 1..Len(out) :
                Len(out[k].trail) = 1 \/ Len(out[k].trail) <= gcall.max_depth[1]
        /\ gcall.max_depth = <<>> => Trails(out) = DeclarationOrder(wcfg, <<>>)
        /\ \A k, l \in 1..Len(out) : out[k].trail = out[l].trail => k = l

(***************************************************************************)
(* The handler registry                                                    *)
(***************************************************************************)
\* The names of the entries that list ext.
Listing(ext) ==
    {handler_registry[i].name :
        i \in {j \in 1..Len(handler_registry) : ext \in handler_registry[j].extensions}}

\* The name among ns whose register call came last.
MostRecent(ns) ==
    recency[CHOOSE k \in 1..Len(recency) :
                /\ recency[k] \in ns
                /\ \A l \in 1..Len(recency) : recency[l] \in ns => l <= k]

FactoryOf(name) ==
    (CHOOSE e \in {handler_registry[i] : i \in 1..Len(handler_registry)} :
        e.name = name).handler

\* C10: when two or more entries list the extension of the path, inference
\* returns the factory of the entry whose register call came last, also when
\* that call re-registered a name, and warns of the ambiguity.
C10_InferMostRecent ==
    (last.op = "infer" /\ Cardinality(Listing(suffix(last.arg))) >= 2) =>
        /\ last.raised = "none"
        /\ last.value = <<FactoryOf(MostRecent(Listing(suffix(last.arg))))>>
        /\ last.warned

EntriesNamed(name) ==
    {i \in 1..Len(handler_registry) : handler_registry[i].name = name}

\* C11: a register call for a name that the registry holds warns and leaves
\* under that name one entry, with the factory and the extensions of this call,
\* the other entries as they were.  Whenever a registered name is resolved, the
\* factory of its entry (the second one, after such a call) is returned, and
\* inference matches an extension exactly when an entry lists it now.
C11_Reregister ==
    /\ \A name \in RegistryNames : Cardinality(EntriesNamed(name)) <= 1
    /\ (last.op = "register" /\ last.raised = "none") =>
        /\ Cardinality(EntriesNamed(last.arg[1])) = 1
        /\ FactoryOf(last.arg[1]) = last.arg[2]
        /\ \A i \in EntriesNamed(last.arg[1]) :
               handler_registry[i].extensions = last.arg[3]
        /\ replaced # <<>> =>
            /\ last.warned
            /\ handler_registry # <<>>
    /\ (last.op = "parse" /\ last.arg.kind = "str"
            /\ EntriesNamed(last.arg.s) # {}) =>
        /\ last.raised = "none"
        /\ last.value = <<FactoryOf(last.arg.s)>>
    /\ last.op = "infer" =>
        /\ (last.raised = "Exception") = (Listing(suffix(last.arg)) = {})
        /\ last.raised = "none" =>
            \E name \in Listing(suffix(last.arg)) : last.value = <<FactoryOf(name)>>

C11_Witness ==
    /\ last.op = "register"
    /\ last.raised = "none"
    /\ last.warned
    /\ replaced = <<[name |-> "a", handler |-> 1, extensions |-> {".txt"}]>>
    /\ handler_registry =
           << [name |-> "a", handler |-> 2, extensions |-> {".json"}],
              [name |-> "b", handler |-> 1, extensions |-> {".txt"}] >>

\* The arguments of a register call that pass every validation.
ValidRegistration(arg) ==
    /\ arg[1] # NotAStr
    /\ arg[2] \in Factories
    /\ \A ext \in arg[3] : ext \in Extensions

\* C12: a register call that fails a validation raises and leaves the registry
\* as it was; so every entry of every registry state has extensions that start
\* with '.', a str as name and a factory that gave a Handler.
C12_FailedRegisterKeepsRegistry ==
    /\ [](\A i \in 1..Len(handler_registry) :
            /\ handler_registry[i].name \in RegistryNames
            /\ handler_registry[i].handler \in Factories
            /\ handler_registry[i].extensions \subseteq Extensions)
    /\ [][(last'.op = "register" /\ ~ValidRegistration(last'.arg)) =>
            /\ last'.raised = "AssertionError"
            /\ handler_registry' = handler_registry]_vars

C12_Witness ==
    /\ last.op = "register"
    /\ last.raised = "AssertionError"
    /\ last.warned
    /\ last.arg = <<"a", 2, {".json", NotAStr}>>
    /\ handler_registry =
           << [name |-> "a", handler |-> 1, extensions |-> {".txt"}],
              [name |-> "b", handler |-> 1, extensions |-> {".txt"}] >>

(***************************************************************************)
(* Node construction                                                       *)
(***************************************************************************)
\* The dotted references that importlib can load.
Loadable == {"pkg.Cls", "pkg.Args"}

\* The handler reference that the call made last was given, <<>> if none.
GivenHandler ==
    CASE last.op = "Node" -> <<last.arg[2]>>
      [] last.op = "to_node" -> last.arg.handler
      [] OTHER -> <<>>

\* C13: a Node construction given, as handler, a str that is neither a
\* registered name nor a loadable dotted reference raises and returns no Node,
\* whatever the registry holds; every Node that a construction returns holds a
\* factory, never a str.
C13_UnknownNameFails ==
    /\ (/\ GivenHandler # <<>>
        /\ GivenHandler[1].kind = "str"
        /\ EntriesNamed(GivenHandler[1].s) = {}
        /\ GivenHandler[1].s \notin Loadable) =>
            /\ last.raised # "none"
            /\ last.value = <<>>
    /\ (last.op \in {"Node", "to_node"} /\ last.value # <<>>) =>
            last.value[1].handler \in Factories \cup {ImportedFactory}

C13_Witness ==
    /\ last.op = "Node"
    /\ last.arg = <<PathArg("rel", <<"x.txt">>), StrRef("b")>>
    /\ last.raised = "ValueError"
    /\ last.value = <<>>
    /\ EntriesNamed("a") # {}

\* The path that the Node construction made last was given.
GivenPath == last.arg[1]

PathInvalid(p) ==
    \/ p.form = "None"
    \/ p.form = "abs"
    \/ p.form = "rel" /\ ~is_relative_to(resolve(cwd, p), cwd)

HandlerInvalid(h) ==
    \/ parse_handler(handler_registry, h).raised # "none"
    \/ parse_handler(handler_registry, h).value = <<NeedsArgsFactory>>

\* C14: the checks of a Node construction run path first: given an invalid
\* path (None, absolute, or escaping) and an invalid handler, the fault of the
\* path check is the one raised and no factory is called; a construction that
\* raises returns no Node and leaves the attributes as __init__ set them.
C14_PathFaultFirst ==
    last.op = "Node" =>
        /\ (PathInvalid(GivenPath) /\ HandlerInvalid(last.arg[2])) =>
            /\ failedCheck \in {"non-null", "path"}
            /\ invoked = 0
        /\ last.raised # "none" =>
            /\ last.value = <<>>
            /\ stored # "canonical"

\* C15: a path with ".." components that, resolved against the working
\* directory, lies outside it makes the Node construction fail, be the path
\* written relative or absolute: the construction raises (the error of the path
\* check, when the handler is a valid one) and returns no Node.
C15_EscapeRaises ==
    (/\ last.op = "Node"
     /\ GivenPath.form \in {"rel", "abs"}
     /\ \E k \in 1..Len(GivenPath.segs) : GivenPath.segs[k] = ".."
     /\ ~is_relative_to(resolve(cwd, GivenPath), cwd)) =>
        /\ last.raised # "none"
        /\ ~HandlerInvalid(last.arg[2]) => failedCheck = "path"
        /\ last.value = <<>>

\* C16: a Node construction given an absolute path raises (the error of the
\* path check, when the handler is a valid one), and no Node that a
\* construction returns has an absolute path.
C16_AbsoluteRaises ==
    /\ (last.op = "Node" /\ GivenPath.form = "abs") =>
        /\ last.raised # "none"
        /\ ~HandlerInvalid(last.arg[2]) => failedCheck = "path"
    /\ (last.op \in {"Node", "to_node"} /\ last.value # <<>>) =>
        last.value[1].path.form # "abs"

\* to_node in the state as it is
ToNode(input) == to_node(cwd, handler_registry, input)

\* C17: given a bare path (a str or a PathLike) and given the dict that holds
\* only that path under "path", to_node does the same: equal Nodes, with the
\* path given and the handler inferred from its extension, or the same error.
\* A dict with a handler key gives what Node(path, handler) gives, a Node is
\* returned as it is, and an input of another type raises TypeError.
C17_ToNode ==
    /\ \A p \in NodePaths \ {NonePath} :
        /\ ToNode(NodeInput("str", <<p>>, <<>>, <<>>))
               = ToNode(NodeInput("dict", <<p>>, <<>>, <<>>))
        /\ ToNode(NodeInput("PathLike", <<p>>, <<>>, <<>>))
               = ToNode(NodeInput("dict", <<p>>, <<>>, <<>>))
    /\ last.op = "to_node" =>
        /\ last.arg.kind = "Node" =>
            /\ last.raised = "none"
            /\ last.value = last.arg.node
        /\ (last.arg.kind = "dict" /\ last.arg.handler # <<>>
                /\ last.arg.path # <<>>) =>
            LET r == Node_post_init(cwd, handler_registry, last.arg.path[1],
                                    last.arg.handler[1])
            IN  last.raised = r.raised /\ last.value = r.value
        /\ (last.arg.kind \in {"str", "PathLike", "dict"} /\ last.arg.handler = <<>>
                /\ last.value # <<>>) =>
            /\ last.value[1].path = last.arg.path[1]
            /\ \E i \in 1..Len(handler_registry) :
                /\ suffix(path_name(last.arg.path[1])) \in handler_registry[i].extensions
                /\ last.value[1].handler = handler_registry[i].handler
        /\ last.arg.kind \notin {"Node", "dict", "str", "PathLike"} =>
            /\ last.raised = "TypeError"
            /\ last.value = <<>>

C17_Witness ==
    /\ last.op = "to_node"
    /\ last.arg = NodeInput("dict", <<PathArg("rel", <<"x.txt">>)>>, <<>>, <<>>)
    /\ last.raised = "none"
    /\ last.value = <<Node(PathArg("rel", <<"x.txt">>), 2)>>
    /\ handler_registry = <<[name |-> "a", handler |-> 2, extensions |-> {".txt"}]>>

(***************************************************************************)
(* Schema types                                                            *)
(***************************************************************************)
\* The entry gives a path (a non-empty one: the builder takes the empty str
\* for no path) and no handler.
GivesPathOnly(fs) ==
    /\ fs.path # <<>>
    /\ fs.path[1].segs # <<>>
    /\ fs.handler = <<>>

FixedNames == {schema[1][i].name : i \in {j \in 1..Len(schema[1]) : schema[1][j].rule = "fixed"}}

HandlerAsBuilt ==
    (last.op = "instantiate" /\ last.raised = "none") =>
        \A i \in 1..Len(schema[1]) :
            schema[1][i].rule = "fixed" =>
                <<last.value[1][i].node.handler>> =
                    parse_handler(builtWith, schema[1][i].handler[1]).value

\* A handler that cannot be resolved when the type is built fails the build.
UnknownHandlerFailsBuild ==
    (/\ last.op = "make_metaconfig"
     /\ \E i \in 1..Len(last.arg) :
          /\ path_given(last.arg[i])
          /\ last.arg[i].handler # <<>>
          /\ parse_handler(handler_registry, last.arg[i].handler[1]).raised # "none") =>
        /\ last.raised # "none"
        /\ schema = <<>>

\* C20: the Node of a field specified with path and handler is fixed when the
\* type is built: register calls made between the build and an instantiation
\* do not change the handler that the instance holds in that field, and a
\* handler name that is unknown at the build makes the build fail.
C20_FixedAtBuild == HandlerAsBuilt /\ UnknownHandlerFailsBuild

\* The normalisation of the field fld fails for the arguments kwargs.
NormalisationFails(fld, kwargs) ==
    CASE fld.rule = "fixed" ->
            Node_post_init(cwd, handler_registry, fld.path[1], fld.handler[1]).raised
                # "none"
      [] fld.rule = "handler" ->
            path_to_node(cwd, handler_registry, fld.handler, kwargs[fld.name]).raised
                # "none"
      [] OTHER -> to_node(cwd, handler_registry, kwargs[fld.name]).raised # "none"

\* C21: an instance that an instantiation returns has every field of its type,
\* and a Node in each of them, whatever the rules of the fields and the forms
\* of the arguments (Node, str, path, dict with or without a handler); when
\* the normalisation of a field fails the instantiation raises and returns no
\* instance.
C21_EveryFieldNode ==
    last.op = "instantiate" =>
        /\ last.raised = "none" =>
            /\ Len(last.value[1]) = Len(schema[1])
            /\ \A i \in 1..Len(schema[1]) :
                /\ last.value[1][i].name = schema[1][i].name
                /\ isinstance_Node(last.value[1][i].node)
        /\ (/\ DOMAIN last.arg = init_names(schema[1])
            /\ \E i \in 1..Len(schema[1]) :
                    NormalisationFails(schema[1][i], last.arg)) =>
            /\ last.raised # "none"
            /\ last.value = <<>>

C21_Witness ==
    /\ last.op = "instantiate"
    /\ last.raised = "none"
    /\ {schema[1][i].rule : i \in 1..Len(schema[1])} = {"fixed", "handler", "free"}
    /\ last.arg["g"].kind = "PathLike"
    /\ last.arg["h"].kind = "Node"
    /\ \A i \in 1..3 : isinstance_Node(last.value[1][i].node)

\* The outcome of the builder for the dict d.
BuiltFrom(d) ==
    /\ last.raised = make_metaconfig_dict(d).raised
    /\ last.value = make_metaconfig_dict(d).value
    /\ schema = make_metaconfig_dict(d).value

\* C22: make_metaconfig on a str that parses as JSON takes the str as the
\* specification and opens no file, also when the str is the name of a file
\* that exists; a file is opened only for a str that does not parse as JSON,
\* and then it is the file that the str names.
C22_JsonFirst ==
    (last.op = "make_metaconfig" /\ last.given.kind = "str") =>
        LET loaded == json_loads(last.given.str)
        IN  /\ loaded.raised = "none" =>
                /\ last.opened = <<>>
                /\ loaded.value[1].type = "dict" => BuiltFrom(loaded.value[1].dict)
                /\ loaded.value[1].type # "dict" =>
                        last.raised = "AttributeError" /\ schema = <<>>
            /\ last.opened # <<>> =>
                /\ loaded.raised # "none"
                /\ last.opened = <<last.given.str>>
            /\ (loaded.raised # "none" /\ last.given.str \in DOMAIN SpecFiles) =>
                last.opened = <<last.given.str>>

C22_Witness ==
    /\ last.op = "make_metaconfig"
    /\ last.given = StrSpec(DocGH)
    /\ DocGH \in DOMAIN SpecFiles
    /\ last.opened = <<>>
    /\ last.raised = "none"
    /\ Len(schema[1]) = 2

\* The dict in the file that the str s names, if there is such a file and it
\* holds a dict.
DictInFile(s) ==
    IF s \notin DOMAIN SpecFiles \/ json_loads(SpecFiles[s]).raised # "none" THEN {}
    ELSE {v.dict : v \in {w \in {json_loads(SpecFiles[s]).value[1]} : w.type = "dict"}}

\* The dict that the str s is the JSON text of, if it is one.
DictInText(s) ==
    IF json_loads(s).raised # "none" THEN {}
    ELSE {v.dict : v \in {w \in {json_loads(s).value[1]} : w.type = "dict"}}

\* An object that is neither dict, str nor path is rejected with TypeError.
OtherTypeRejected ==
    (last.op = "make_metaconfig" /\ last.given.kind \notin {"dict", "str", "PathLike"}) =>
        /\ last.raised = "TypeError"
        /\ schema = <<>>

\* C23, as stated: make_metaconfig gives the outcome of the builder for the
\* dict d when it is given d, the JSON text of d, the path of a file that holds
\* d, or the str of that path; an object of another type is rejected.
C23_FourForms ==
    /\ last.op = "make_metaconfig" =>
        \A d \in CASE last.given.kind = "dict" -> {last.given.dict}
                  [] last.given.kind = "PathLike" -> DictInFile(last.given.str)
                  [] last.given.kind = "str" ->
                        DictInText(last.given.str) \cup DictInFile(last.given.str)
                  [] OTHER -> {} :
            BuiltFrom(d)
    /\ OtherTypeRejected

\* C23, amended: the same, with the str of a path standing for the file only
\* when the str does not itself parse as JSON.
C23_FourFormsJsonFirst ==
    /\ last.op = "make_metaconfig" =>
        \A d \in CASE last.given.kind = "dict" -> {last.given.dict}
                  [] last.given.kind = "PathLike" -> DictInFile(last.given.str)
                  [] last.given.kind = "str" ->
                        IF str_is_json(last.given.str)
                        THEN DictInText(last.given.str)
                        ELSE DictInFile(last.given.str)
                  [] OTHER -> {} :
            BuiltFrom(d)
    /\ OtherTypeRejected

C23_Witness ==
    /\ last.op = "make_metaconfig"
    /\ last.given = StrSpec("spec.json")
    /\ last.opened = <<"spec.json">>
    /\ BuiltFrom(json_loads(DocF).value[1].dict)
    /\ BuiltFrom(make_metaconfig_any(PathSpec("spec.json")).config)
    /\ last.raised = "none"

=============================================================================
